---- MODULE Spec2Model ----
(***************************************************************************)
(* TaskManagerV2: the tables, row-level-security policies and triggers of  *)
(* the migration (supabase/migrations/2025...sql) and the client hook      *)
(* useTasks that issues the requests (fetchTasks, createTask, updateTask,  *)
(* deleteTask).  Every request to the store is one atomic statement; a     *)
(* hook call that makes two requests (task write, then activity_logs       *)
(* insert) is two steps, and other clients may act in between.  A mounted  *)
(* client holds a realtime subscription to public.tasks: every change      *)
(* notifies it, every notification starts a fetch, and the responses of    *)
(* overlapping fetches arrive in any order.                                *)
(*                                                                         *)
(* Columns modelled of public.tasks: id, title, status, priority,          *)
(* created_by, assigned_to, updated_at.  description and due_date are      *)
(* unconstrained nullable columns that no policy or trigger reads.         *)
(***************************************************************************)
EXTENDS Integers, Sequences, FiniteSets, TLC

\* ---- bounds of the model ----
MaxTasks == 2          \* task ids ever handed out by gen_random_uuid()
MaxClock == 2          \* accepted writes to public.tasks (values of NOW())
MaxLogs == 2           \* rows held by public.activity_logs at once
MaxFetches == 2        \* fetchTasks responses one client has in flight at once

\* ---- value domains ----
NULL == "null"                     \* SQL NULL / JS null
ABSENT == "absent"                 \* JS undefined: key not sent in the payload
NoPriority == 0                    \* priority IS NULL
AbsentPriority == -1               \* priority not sent in the payload
AbsentStamp == -1                  \* updated_at not sent in the payload
DefaultStatus == "todo"            \* status task_status DEFAULT 'todo'
DefaultPriority == 1               \* priority INTEGER DEFAULT 1
Users == {"u1", "u2"}              \* auth.users ids that may register
Roles == {"manager", "user"}
RoleMeta == {"manager", "user", NULL, "admin"}
Statuses == {"todo", "in_progress", "completed"}
NewTitles == {"a"}                 \* titles typed into the create form
EditTitles == {"b"}                \* titles typed into an edit
NewStatuses == {"todo"}            \* status chosen at creation
EditStatuses == {"completed"}      \* status sent by updateTaskStatus
PriorityInputs == {3, 6}           \* 6 is outside CHECK (priority <= 5)
TaskIds == 1..MaxTasks

VARIABLES
    users,          \* auth.users: registered identities
    profiles,       \* public.profiles: ids holding a profile row
    user_roles,     \* public.user_roles: set of [user_id, role]
    tasks,          \* public.tasks: function id -> row, on the ids that exist
    activity_logs,  \* public.activity_logs: sequence of rows, oldest first
    clock,          \* NOW(): advances with every accepted write to tasks
    nextId,         \* next fresh task id
    clientTasks,    \* useTasks `tasks` state of each user's client
    pending,        \* per client: the activity_logs row its call is about to insert
    subscribed,     \* clients whose 'tasks-changes' channel is subscribed
    notified,       \* subscribed clients with a change notification not yet handled
    fetching,       \* per client: responses of fetchTasks calls still in flight
    last            \* the request that was served by the latest step

vars == <<users, profiles, user_roles, tasks, activity_logs, clock, nextId,
          clientTasks, pending, subscribed, notified, fetching, last>>

\* the realtime side of the clients
channel == <<subscribed, notified, fetching>>

\* ---- rows ----
NoRow == [id |-> 0, title |-> NULL, status |-> NULL, priority |-> NoPriority,
          created_by |-> NULL, assigned_to |-> NULL, updated_at |-> 0]

NoLog == [task_id |-> 0, user_id |-> NULL, action |-> "none",
          old_value |-> NoRow, new_value |-> NoRow]

Request(op, by, res) == [op |-> op, by |-> by, res |-> res]

\* ---- policies and constraints of the migration ----
has_role(uid, role) ==
    \E r \in user_roles : r.user_id = uid /\ r.role = role

RoleInsertPolicy(uid, row) == row.user_id = uid

\* slip: the assignee branch of the SELECT policy is left out
TaskSelectPolicy_CreatorOnly(uid, row) == row.created_by = uid

TaskSelectPolicy(uid, row) == row.assigned_to = uid \/ row.created_by = uid

\* slip: the INSERT policy forgets has_role
TaskInsertPolicy_NoRole(uid, row) == row.created_by = uid

TaskInsertPolicy(uid, row) == has_role(uid, "manager") /\ row.created_by = uid

ManagerUpdatePolicy(uid, row) == has_role(uid, "manager") /\ row.created_by = uid

AssigneeUpdatePolicy(uid, row) == row.assigned_to = uid

TaskUpdateUsing(uid, row) ==
    ManagerUpdatePolicy(uid, row) \/ AssigneeUpdatePolicy(uid, row)

\* slip: the new row of an UPDATE is not checked at all
TaskUpdateCheck_None(uid, row) == TRUE

\* A policy FOR UPDATE written with USING only applies the same expression
\* as WITH CHECK to the new row; permissive policies are OR'ed.
TaskUpdateCheck(uid, row) ==
    ManagerUpdatePolicy(uid, row) \/ AssigneeUpdatePolicy(uid, row)

\* slip: the DELETE policy reuses the SELECT predicate
TaskDeletePolicy_AsSelect(uid, row) == row.created_by = uid \/ row.assigned_to = uid

TaskDeletePolicy(uid, row) == has_role(uid, "manager") /\ row.created_by = uid

\* slip: visibility decided by the task as the log row recorded it
LogSelectPolicy_Snapshot(uid, row) ==
    row.new_value.assigned_to = uid \/ row.new_value.created_by = uid

LogSelectPolicy(uid, row) ==
    \E id \in DOMAIN tasks :
        /\ id = row.task_id
        /\ (tasks[id].assigned_to = uid \/ tasks[id].created_by = uid)

LogInsertPolicy(uid, row) == row.user_id = uid

\* slip: a DELETE policy on activity_logs that mirrors the SELECT policy
LogDeletePolicy_AsSelect(uid, row) ==
    \E id \in DOMAIN tasks :
        id = row.task_id /\ (tasks[id].assigned_to = uid \/ tasks[id].created_by = uid)

\* Row level security is enabled on activity_logs and no policy FOR UPDATE or
\* FOR DELETE exists: no row passes for any client.
LogUpdatePolicy(uid, row) == FALSE

LogDeletePolicy(uid, row) == FALSE

\* title NOT NULL, CHECK (priority >= 1 AND priority <= 5) (passes on NULL),
\* created_by NOT NULL REFERENCES auth.users, assigned_to REFERENCES auth.users
TaskConstraints(row) ==
    /\ row.title # NULL
    /\ (row.priority = NoPriority \/ (row.priority >= 1 /\ row.priority <= 5))
    /\ row.created_by \in users
    /\ (row.assigned_to = NULL \/ row.assigned_to \in users)

\* task_id NOT NULL REFERENCES tasks, user_id REFERENCES auth.users
LogConstraints(row) ==
    /\ row.task_id \in DOMAIN tasks
    /\ (row.user_id = NULL \/ row.user_id \in users)

\* slip: activity_logs.task_id without ON DELETE CASCADE
CascadeLogs_None(logs, ids) == logs

\* activity_logs.task_id REFERENCES tasks(id) ON DELETE CASCADE
CascadeLogs(logs, ids) == SelectSeq(logs, LAMBDA l : l.task_id \notin ids)

\* ALTER PUBLICATION supabase_realtime ADD TABLE public.tasks: a committed
\* change of public.tasks notifies every subscribed client
Notify == notified \cup subscribed

\* ---- initial state: the migration has run, the tables are empty ----
Init ==
    /\ users = {}
    /\ profiles = {}
    /\ user_roles = {}
    /\ tasks = <<>>
    /\ activity_logs = <<>>
    /\ clock = 0
    /\ nextId = 1
    /\ clientTasks = [u \in Users |-> {}]
    /\ pending = [u \in Users |-> NoLog]
    /\ subscribed = {}
    /\ notified = {}
    /\ fetching = [u \in Users |-> {}]
    /\ last = Request("none", NULL, "none")

\* ---- registration: INSERT INTO auth.users fires handle_new_user ----
\* (meta->>'role')::app_role raises on a text that is no label of app_role,
\* which aborts the insert into auth.users together with the trigger's rows.
SignUp(u, meta) ==
    /\ u \notin users
    /\ IF meta \in Roles \cup {NULL}
       THEN /\ users' = users \cup {u}
            /\ profiles' = profiles \cup {u}
            /\ user_roles' = user_roles \cup
                   {[user_id |-> u, role |-> IF meta = NULL THEN "user" ELSE meta]}
            /\ last' = Request("signUp", u, "ok")
       ELSE /\ UNCHANGED <<users, profiles, user_roles>>
            /\ last' = Request("signUp", u, "error")
    /\ UNCHANGED <<tasks, activity_logs, clock, nextId, clientTasks, pending, channel>>

\* ---- a direct insert into public.user_roles by an authenticated client ----
\* WITH CHECK (user_id = auth.uid()); UNIQUE (user_id, role); a refused insert
\* leaves the table as it is.
InsertRole(u, role) ==
    /\ u \in users
    /\ LET row == [user_id |-> u, role |-> role] IN
       /\ RoleInsertPolicy(u, row)
       /\ row \notin user_roles
       /\ user_roles' = user_roles \cup {row}
    /\ last' = Request("insertRole", u, "ok")
    /\ UNCHANGED <<users, profiles, tasks, activity_logs, clock, nextId,
                   clientTasks, pending, channel>>

\* ---- useTasks.fetchTasks: select * from tasks, filtered by the SELECT policy ----
VisibleTasks(u) == {tasks[id] : id \in {i \in DOMAIN tasks : TaskSelectPolicy(u, tasks[i])}}

FetchTasks(u) ==
    /\ u \in users
    /\ clientTasks' = [clientTasks EXCEPT ![u] = VisibleTasks(u)]
    /\ last' = Request("fetchTasks", u, "ok")
    /\ UNCHANGED <<users, profiles, user_roles, tasks, activity_logs, clock,
                   nextId, pending, channel>>

\* ---- useTasks.createTask, first request: insert(...).select().single() ----
CreatePayloads ==
    [title : NewTitles, status : NewStatuses, priority : PriorityInputs,
     assigned_to : Users \cup {NULL}]

CreateTask(u, p) ==
    /\ pending[u] = NoLog
    /\ u \in users
    /\ LET row == [id |-> nextId, title |-> p.title,
                        status |-> IF p.status = ABSENT THEN DefaultStatus ELSE p.status,
                        priority |-> IF p.priority = AbsentPriority
                                     THEN DefaultPriority ELSE p.priority,
                        created_by |-> u,
                        assigned_to |-> p.assigned_to, updated_at |-> clock + 1]
            IN  IF ~TaskInsertPolicy(u, row) \/ ~TaskSelectPolicy(u, row)
                THEN /\ last' = Request("createTask", u, "Unauthorized")
                     /\ UNCHANGED <<tasks, clock, nextId, pending, notified>>
                ELSE IF ~TaskConstraints(row)
                THEN /\ last' = Request("createTask", u, "ConstraintViolation")
                     /\ UNCHANGED <<tasks, clock, nextId, pending, notified>>
                ELSE /\ nextId <= MaxTasks
                     /\ clock < MaxClock
                     /\ tasks' = [i \in DOMAIN tasks \cup {nextId} |->
                                     IF i = nextId THEN row ELSE tasks[i]]
                     /\ clock' = clock + 1
                     /\ nextId' = nextId + 1
                     /\ notified' = Notify
                     /\ pending' = [pending EXCEPT ![u] =
                            [task_id |-> row.id, user_id |-> u, action |-> "created",
                             old_value |-> NoRow, new_value |-> row]]
                     /\ last' = Request("createTask", u, "inserted")
    /\ UNCHANGED <<users, profiles, user_roles, activity_logs, clientTasks,
                   subscribed, fetching>>

\* ---- useTasks.updateTask, first request: update(updates).eq('id', id).select().single() ----
NoUpdates == [title |-> ABSENT, status |-> ABSENT, priority |-> AbsentPriority,
              created_by |-> ABSENT, assigned_to |-> ABSENT, updated_at |-> AbsentStamp]

\* Partial<Task>: the payloads of updateTaskStatus and one-column edits
UpdatePayloads ==
    {[NoUpdates EXCEPT !.status = s] : s \in EditStatuses}
    \cup {[NoUpdates EXCEPT !.title = t] : t \in EditTitles}
    \cup {[NoUpdates EXCEPT !.priority = n] : n \in PriorityInputs}
    \cup {[NoUpdates EXCEPT !.created_by = c] : c \in Users}
    \cup {[NoUpdates EXCEPT !.assigned_to = a] : a \in Users \cup {NULL}}

\* slip: the status column is left out of the SET list
ApplyUpdates_NoStatus(row, p) ==
    [id |-> row.id,
     title |-> IF p.title = ABSENT THEN row.title ELSE p.title,
     status |-> row.status,
     priority |-> IF p.priority = AbsentPriority THEN row.priority ELSE p.priority,
     created_by |-> IF p.created_by = ABSENT THEN row.created_by ELSE p.created_by,
     assigned_to |-> IF p.assigned_to = ABSENT THEN row.assigned_to ELSE p.assigned_to,
     updated_at |-> IF p.updated_at = AbsentStamp THEN row.updated_at ELSE p.updated_at]

\* SET col = value for the columns the payload carries
ApplyUpdates(row, p) ==
    [id |-> row.id,
     title |-> IF p.title = ABSENT THEN row.title ELSE p.title,
     status |-> IF p.status = ABSENT THEN row.status ELSE p.status,
     priority |-> IF p.priority = AbsentPriority THEN row.priority ELSE p.priority,
     created_by |-> IF p.created_by = ABSENT THEN row.created_by ELSE p.created_by,
     assigned_to |-> IF p.assigned_to = ABSENT THEN row.assigned_to ELSE p.assigned_to,
     updated_at |-> IF p.updated_at = AbsentStamp THEN row.updated_at ELSE p.updated_at]

\* BEFORE UPDATE trigger update_tasks_updated_at
update_updated_at_column(row, now) == [row EXCEPT !.updated_at = now]

\* tasks.find(t => t.id === id) on the client's list; undefined is sent as null
FindTask(list, id) ==
    IF \E t \in list : t.id = id THEN CHOOSE t \in list : t.id = id ELSE NoRow

\* what the store answers to the update: no row passes USING (single() then
\* fails on zero rows), the new row fails WITH CHECK or the SELECT policy that
\* RETURNING applies, the new row breaks a constraint, or the row is written
UpdateOutcome(u, id, p) ==
    IF ~(/\ id \in DOMAIN tasks
         /\ TaskSelectPolicy(u, tasks[id])
         /\ TaskUpdateUsing(u, tasks[id]))
    THEN "NoRows"
    ELSE LET new == update_updated_at_column(ApplyUpdates(tasks[id], p), clock + 1)
         IN  IF ~TaskUpdateCheck(u, new) \/ ~TaskSelectPolicy(u, new)
             THEN "Unauthorized"
             ELSE IF ~TaskConstraints(new) THEN "ConstraintViolation" ELSE "updated"

UpdateTask(u, id, p) ==
    /\ pending[u] = NoLog
    /\ u \in users
    /\ LET error == UpdateOutcome(u, id, p)
           oldTask == FindTask(clientTasks[u], id)
           data == update_updated_at_column(ApplyUpdates(tasks[id], p), clock + 1)
       IN  IF error # "updated"
           THEN /\ last' = Request("updateTask", u, error)
                /\ UNCHANGED <<tasks, clock, pending, notified>>
           ELSE /\ clock < MaxClock
                /\ tasks' = [tasks EXCEPT ![id] = data]
                /\ clock' = clock + 1
                /\ notified' = Notify
                /\ pending' = [pending EXCEPT ![u] =
                       [task_id |-> id, user_id |-> u, action |-> "updated",
                        old_value |-> oldTask, new_value |-> data]]
                /\ last' = Request("updateTask", u, "updated")
    /\ UNCHANGED <<users, profiles, user_roles, activity_logs, nextId, clientTasks,
                   subscribed, fetching>>

\* ---- createTask / updateTask, second request: activity_logs insert ----
\* The result of the insert is not read; the call returns {data, error: null}.
\* delivered = FALSE: the request fails before it reaches the table.
InsertAccepted(u, row) == LogInsertPolicy(u, row) /\ LogConstraints(row)

AuditInsert(u, delivered) ==
    /\ pending[u] # NoLog
    /\ IF delivered /\ InsertAccepted(u, pending[u])
       THEN /\ Len(activity_logs) < MaxLogs
            /\ activity_logs' = Append(activity_logs, pending[u])
       ELSE UNCHANGED activity_logs
    /\ pending' = [pending EXCEPT ![u] = NoLog]
    /\ last' = Request(IF pending[u].action = "created" THEN "createTask" ELSE "updateTask",
                       u, "ok")
    /\ UNCHANGED <<users, profiles, user_roles, tasks, clock, nextId, clientTasks,
                   channel>>

\* ---- useTasks.deleteTask: delete().eq('id', id); zero rows deleted is no error ----
DeleteTask(u, id) ==
    /\ pending[u] = NoLog
    /\ u \in users
    /\ IF /\ id \in DOMAIN tasks
               /\ TaskSelectPolicy(u, tasks[id])
               /\ TaskDeletePolicy(u, tasks[id])
       THEN /\ tasks' = [i \in DOMAIN tasks \ {id} |-> tasks[i]]
            /\ activity_logs' = CascadeLogs(activity_logs, {id})
            /\ notified' = Notify
            /\ last' = Request("deleteTask", u, "ok")
       ELSE /\ UNCHANGED <<tasks, activity_logs, notified>>
            /\ last' = Request("deleteTask", u, "ok")
    /\ UNCHANGED <<users, profiles, user_roles, clock, nextId, clientTasks, pending,
                   subscribed, fetching>>

\* ---- removal of an identity: DELETE FROM auth.users (dashboard, service role) ----
\* profiles.id, user_roles.user_id and tasks.created_by are ON DELETE CASCADE
\* (and activity_logs.task_id after the tasks); tasks.assigned_to and
\* activity_logs.user_id are ON DELETE SET NULL, and the UPDATE that nulls
\* assigned_to fires update_tasks_updated_at.
\* slip: the referencing row is left as it is
OnDeleteAssignee_NoAction(row, now) == row

\* tasks.assigned_to REFERENCES auth.users(id) ON DELETE SET NULL
OnDeleteAssignee(row, now) ==
    update_updated_at_column([row EXCEPT !.assigned_to = NULL], now)

SetNullUser(logs, u) ==
    [i \in 1..Len(logs) |->
        IF logs[i].user_id = u THEN [logs[i] EXCEPT !.user_id = NULL] ELSE logs[i]]

DeleteUser(u) ==
    /\ u \in users
    /\ LET gone == {id \in DOMAIN tasks : tasks[id].created_by = u}
           freed == {id \in DOMAIN tasks \ gone : tasks[id].assigned_to = u}
       IN  /\ freed # {} => clock < MaxClock
           /\ tasks' = [id \in DOMAIN tasks \ gone |->
                           IF id \in freed
                           THEN OnDeleteAssignee(tasks[id], clock + 1)
                           ELSE tasks[id]]
           /\ clock' = IF freed # {} THEN clock + 1 ELSE clock
           /\ activity_logs' = SetNullUser(CascadeLogs(activity_logs, gone), u)
           /\ notified' = IF gone \cup freed # {} THEN Notify ELSE notified
    /\ users' = users \ {u}
    /\ profiles' = profiles \ {u}
    /\ user_roles' = {r \in user_roles : r.user_id # u}
    /\ last' = Request("deleteUser", u, "ok")
    /\ UNCHANGED <<nextId, clientTasks, pending, subscribed, fetching>>

\* ---- requests a client can send to public.activity_logs besides the insert ----
\* update(...).eq('id', ...) and delete().eq('id', ...) on the i-th row: rows
\* that pass no policy are not touched, and touching no row is no error.
UpdateLog(u, i, action) ==
    /\ u \in users
    /\ i \in 1..Len(activity_logs)
    /\ activity_logs' =
           IF LogSelectPolicy(u, activity_logs[i]) /\ LogUpdatePolicy(u, activity_logs[i])
           THEN [activity_logs EXCEPT ![i].action = action]
           ELSE activity_logs
    /\ last' = Request("updateLog", u, "ok")
    /\ UNCHANGED <<users, profiles, user_roles, tasks, clock, nextId, clientTasks,
                   pending, channel>>

DeleteLog(u, i) ==
    /\ u \in users
    /\ i \in 1..Len(activity_logs)
    /\ activity_logs' =
           IF LogSelectPolicy(u, activity_logs[i]) /\ LogDeletePolicy(u, activity_logs[i])
           THEN [j \in 1..(Len(activity_logs) - 1) |->
                    IF j < i THEN activity_logs[j] ELSE activity_logs[j + 1]]
           ELSE activity_logs
    /\ last' = Request("deleteLog", u, "ok")
    /\ UNCHANGED <<users, profiles, user_roles, tasks, clock, nextId, clientTasks,
                   pending, channel>>

Next ==
    \/ \E u \in Users, meta \in RoleMeta : SignUp(u, meta)
    \/ \E u \in Users, r \in Roles : InsertRole(u, r)
    \/ \E u \in Users : FetchTasks(u)
    \/ \E u \in Users, p \in CreatePayloads : CreateTask(u, p)
    \/ \E u \in Users, id \in TaskIds, p \in UpdatePayloads : UpdateTask(u, id, p)
    \/ \E u \in Users, delivered \in BOOLEAN : AuditInsert(u, delivered)
    \/ \E u \in Users, id \in TaskIds : DeleteTask(u, id)

Spec == Init /\ [][Next]_vars

\* ---- the store with both identities registered ----
\* u1 signed up with role manager, u2 with role user; from here on identities
\* are removed, clients call the hook with any Partial<Task> and send the
\* other requests their key allows.
InitRegistered ==
    /\ users = Users
    /\ profiles = Users
    /\ user_roles = {[user_id |-> "u1", role |-> "manager"],
                     [user_id |-> "u2", role |-> "user"]}
    /\ tasks = <<>>
    /\ activity_logs = <<>>
    /\ clock = 0
    /\ nextId = 1
    /\ clientTasks = [u \in Users |-> {}]
    /\ pending = [u \in Users |-> NoLog]
    /\ subscribed = {}
    /\ notified = {}
    /\ fetching = [u \in Users |-> {}]
    /\ last = Request("signUp", "u2", "ok")

\* Partial<Task> beyond what the form sends: an empty title, priority null,
\* a value for updated_at
DirectPayloads ==
    {[NoUpdates EXCEPT !.title = ""],
     [NoUpdates EXCEPT !.priority = NoPriority],
     [NoUpdates EXCEPT !.updated_at = 0]}

NextStore ==
    \/ \E u \in Users : FetchTasks(u)
    \/ \E u \in Users, p \in CreatePayloads : CreateTask(u, p)
    \/ \E u \in Users, id \in TaskIds, p \in UpdatePayloads \cup DirectPayloads :
           UpdateTask(u, id, p)
    \/ \E u \in Users, delivered \in BOOLEAN : AuditInsert(u, delivered)
    \/ \E u \in Users, id \in TaskIds : DeleteTask(u, id)
    \/ \E u \in Users : DeleteUser(u)
    \/ \E u \in Users, i \in 1..MaxLogs : UpdateLog(u, i, "edited")
    \/ \E u \in Users, i \in 1..MaxLogs : DeleteLog(u, i)

SpecStore == InitRegistered /\ [][NextStore]_vars

\* what the form and the status menu of the dashboard send
FormCreates == {p \in CreatePayloads : p.priority = 3}

StatusUpdates == {[NoUpdates EXCEPT !.status = s] : s \in EditStatuses}

\* ---- requests sent to the store without the form ----
\* createTask called with neither status nor priority: the insert carries
\* no value for them and the column defaults apply
BareCreates ==
    [title : NewTitles, status : {ABSENT}, priority : {AbsentPriority},
     assigned_to : Users \cup {NULL}]

\* insert into public.activity_logs sent by a client on its own: first the
\* WITH CHECK of the INSERT policy, then the foreign keys
InsertLogOutcome(u, row) ==
    IF ~LogInsertPolicy(u, row) THEN "Unauthorized"
    ELSE IF ~LogConstraints(row) THEN "ConstraintViolation" ELSE "ok"

\* rows a client makes up: any task id, any identity as the author
ForgedLogs ==
    [task_id : TaskIds, user_id : Users, action : {"updated"},
     old_value : {NoRow}, new_value : {NoRow}]

InsertLog(u, row) ==
    /\ u \in users
    /\ IF InsertLogOutcome(u, row) = "ok"
       THEN /\ Len(activity_logs) < MaxLogs
            /\ activity_logs' = Append(activity_logs, row)
       ELSE UNCHANGED activity_logs
    /\ last' = Request("insertLog", u, InsertLogOutcome(u, row))
    /\ UNCHANGED <<users, profiles, user_roles, tasks, clock, nextId, clientTasks,
                   pending, channel>>

NextDirect ==
    \/ \E u \in Users : FetchTasks(u)
    \/ \E u \in Users, p \in FormCreates \cup BareCreates : CreateTask(u, p)
    \/ \E u \in Users, id \in TaskIds, p \in StatusUpdates : UpdateTask(u, id, p)
    \/ \E u \in Users, delivered \in BOOLEAN : AuditInsert(u, delivered)
    \/ \E u \in Users, id \in TaskIds : DeleteTask(u, id)
    \/ \E u \in Users, row \in ForgedLogs : InsertLog(u, row)

SpecDirect == InitRegistered /\ [][NextDirect]_vars

\* ---- TaskCard: what the card of a task offers to the viewer ----
\* role and user come from useAuth(); task is the client's copy of the row.
\* slip: Delete is offered to whoever may change the status
canDelete_LikeStatus(role, user, task) ==
    task.assigned_to = user \/ (role = "manager" /\ task.created_by = user)

canEdit(role, user, task) == role = "manager" /\ task.created_by = user

canDelete(role, user, task) == role = "manager" /\ task.created_by = user

canChangeStatus(role, user, task) == task.assigned_to = user \/ canEdit(role, user, task)

\* the status items of the dropdown: Mark In Progress, Mark Complete, Reopen Task
StatusMenu(status) ==
    IF status # "completed"
    THEN (IF status = "todo" THEN {"in_progress"} ELSE {}) \cup {"completed"}
    ELSE {"todo"}

\* the role useAuth() holds for the signed-in user: a role row of the user
ClientRoles(u) == {r.role : r \in {x \in user_roles : x.user_id = u}}

\* what the edit form submits: every field of the form, validated by taskSchema
FormEdits ==
    [title : EditTitles, status : NewStatuses \cup EditStatuses, priority : {3},
     created_by : {ABSENT}, assigned_to : Users \cup {NULL}, updated_at : {AbsentStamp}]

\* Dashboard.handleStatusChange: updateTaskStatus(task.id, status)
CardStatusChange(u, role, task, status) ==
    /\ task \in clientTasks[u]
    /\ role \in ClientRoles(u)
    /\ canChangeStatus(role, u, task)
    /\ status \in StatusMenu(task.status)
    /\ UpdateTask(u, task.id, [NoUpdates EXCEPT !.status = status])

\* Dashboard.handleEdit, then handleFormSubmit: updateTask(editingTask.id, data)
CardEdit(u, role, task, data) ==
    /\ task \in clientTasks[u]
    /\ role \in ClientRoles(u)
    /\ canEdit(role, u, task)
    /\ UpdateTask(u, task.id, data)

\* Dashboard.handleDelete, then confirmDelete: deleteTask(deleteTaskId)
CardDelete(u, role, task) ==
    /\ task \in clientTasks[u]
    /\ role \in ClientRoles(u)
    /\ canDelete(role, u, task)
    /\ DeleteTask(u, task.id)

NextCard ==
    \/ \E u \in Users : FetchTasks(u)
    \/ \E u \in Users, p \in FormCreates : CreateTask(u, p)
    \/ \E u \in Users, role \in Roles : \E task \in clientTasks[u] :
           \E status \in Statuses : CardStatusChange(u, role, task, status)
    \/ \E u \in Users, role \in Roles, data \in FormEdits :
           \E task \in clientTasks[u] : CardEdit(u, role, task, data)
    \/ \E u \in Users, role \in Roles :
           \E task \in clientTasks[u] : CardDelete(u, role, task)
    \/ \E u \in Users : AuditInsert(u, TRUE)

SpecCard == InitRegistered /\ [][NextCard]_vars

\* ---- the realtime side of useTasks (useEffect on [user]) ----
\* On mount the hook calls fetchTasks() and subscribes to every change of
\* public.tasks; the handler of a notification calls fetchTasks() again.  A
\* fetchTasks call is a select whose answer, the rows visible when the store
\* served it, reaches setTasks later; the answers of calls that overlap
\* arrive in any order.
Mount(u) ==
    /\ u \in users
    /\ u \notin subscribed
    /\ subscribed' = subscribed \cup {u}
    /\ fetching' = [fetching EXCEPT ![u] = @ \cup {VisibleTasks(u)}]
    /\ last' = Request("mount", u, "ok")
    /\ UNCHANGED <<users, profiles, user_roles, tasks, activity_logs, clock, nextId,
                   clientTasks, pending, notified>>

\* again = TRUE: the same notification will be delivered once more
OnNotification(u, again) ==
    /\ u \in notified
    /\ Cardinality(fetching[u] \cup {VisibleTasks(u)}) <= MaxFetches
    /\ fetching' = [fetching EXCEPT ![u] = @ \cup {VisibleTasks(u)}]
    /\ notified' = IF again THEN notified ELSE notified \ {u}
    /\ last' = Request("notification", u, "ok")
    /\ UNCHANGED <<users, profiles, user_roles, tasks, activity_logs, clock, nextId,
                   clientTasks, pending, subscribed>>

\* setTasks(data) of one of the calls in flight
FetchReturns(u, data) ==
    /\ data \in fetching[u]
    /\ clientTasks' = [clientTasks EXCEPT ![u] = data]
    /\ fetching' = [fetching EXCEPT ![u] = @ \ {data}]
    /\ last' = Request("setTasks", u, "ok")
    /\ UNCHANGED <<users, profiles, user_roles, tasks, activity_logs, clock, nextId,
                   pending, subscribed, notified>>

NextRealtime ==
    \/ \E u \in Users : Mount(u)
    \/ \E u \in Users, again \in BOOLEAN : OnNotification(u, again)
    \/ \E u \in Users : \E data \in fetching[u] : FetchReturns(u, data)
    \/ \E u \in Users, p \in FormCreates : CreateTask(u, p)
    \/ \E u \in Users, id \in TaskIds, p \in StatusUpdates : UpdateTask(u, id, p)
    \/ \E u \in Users : AuditInsert(u, TRUE)
    \/ \E u \in Users, id \in TaskIds : DeleteTask(u, id)

SpecRealtime == InitRegistered /\ [][NextRealtime]_vars

\* ---- two clients editing one task ----
\* Both identities are registered; at time 0 manager u1 created task 1 for
\* u2 (the insert and its activity_logs row are committed), and both clients
\* have fetched it.  From here both may update the task.
FirstTask == [id |-> 1, title |-> "a", status |-> "todo", priority |-> 3,
              created_by |-> "u1", assigned_to |-> "u2", updated_at |-> 0]

InitAssigned ==
    /\ users = Users
    /\ profiles = Users
    /\ user_roles = {[user_id |-> "u1", role |-> "manager"],
                     [user_id |-> "u2", role |-> "user"]}
    /\ tasks = <<FirstTask>>
    /\ activity_logs = <<[task_id |-> 1, user_id |-> "u1", action |-> "created",
                          old_value |-> NoRow, new_value |-> FirstTask]>>
    /\ clock = 0
    /\ nextId = 2
    /\ clientTasks = [u \in Users |-> {FirstTask}]
    /\ pending = [u \in Users |-> NoLog]
    /\ subscribed = {}
    /\ notified = {}
    /\ fetching = [u \in Users |-> {}]
    /\ last = Request("fetchTasks", "u2", "ok")

NextConflict ==
    \/ \E u \in Users : FetchTasks(u)
    \/ \E u \in Users, id \in TaskIds, p \in UpdatePayloads : UpdateTask(u, id, p)
    \/ \E u \in Users, delivered \in BOOLEAN : AuditInsert(u, delivered)

SpecConflict == InitAssigned /\ [][NextConflict]_vars

\* ---- what the claims speak of ----
IsManager(u) == \E r \in user_roles : r.user_id = u /\ r.role = "manager"

ManagerCreator(u, row) == IsManager(u) /\ row.created_by = u

\* Every action records in `last` the request it served and the caller, so
\* last' names the step taken: op = "createTask"/"updateTask" with res = "ok"
\* is the return of the call after its activity_logs insert, any other res
\* is the call's first request.

\* C1: createTask by an identity that does not hold role manager at the time
\* of the call returns Unauthorized, and the call adds no tasks row and no
\* activity_logs row (none is inserted and none is left to be inserted).
C1_NonManagerCreateUnauthorized ==
    [][(last'.op = "createTask" /\ ~IsManager(last'.by))
          => /\ last'.res = "Unauthorized"
             /\ tasks' = tasks
             /\ activity_logs' = activity_logs
             /\ pending' = pending]_vars

\* a registered identity without role manager has just been refused, with
\* a manager's task in the store
C1_Witness ==
    /\ last.op = "createTask"
    /\ last.res = "Unauthorized"
    /\ last.by \in users
    /\ ~IsManager(last.by)
    /\ DOMAIN tasks # {}

\* C2: fetchTasks by I returns exactly the committed rows T with
\* I = T.created_by or I = T.assigned_to; every other task yields no row.
C2_FetchReturnsOwnOrAssigned ==
    [][last'.op = "fetchTasks"
          => clientTasks'[last'.by] =
                 {tasks[id] : id \in {i \in DOMAIN tasks :
                      tasks[i].created_by = last'.by \/ tasks[i].assigned_to = last'.by}}]_vars

\* a fetch has just returned one task to its assignee while another task,
\* of which the reader is neither creator nor assignee, yielded no row
C2_Witness ==
    /\ last.op = "fetchTasks"
    /\ \E t \in clientTasks[last.by] :
           t.assigned_to = last.by /\ t.created_by # last.by
    /\ \E id \in DOMAIN tasks : \A t \in clientTasks[last.by] : t.id # id

\* C7: a deleteTask removes a tasks row only when the caller holds role
\* manager and is the row's created_by; a deleteTask by anyone else, the
\* assignee included, leaves tasks and activity_logs as they were.
C7_DeleteOnlyByManagerCreator ==
    [][last'.op = "deleteTask"
          => \/ tasks' = tasks /\ activity_logs' = activity_logs
             \/ \E id \in DOMAIN tasks :
                   /\ ManagerCreator(last'.by, tasks[id])
                   /\ DOMAIN tasks' = DOMAIN tasks \ {id}]_vars

\* the assignee of a logged task, not its creator, has just called
\* deleteTask, and the task and its log row are still there
C7_Witness ==
    /\ last.op = "deleteTask"
    /\ \E id \in DOMAIN tasks :
           /\ tasks[id].assigned_to = last.by
           /\ tasks[id].created_by # last.by
           /\ \E i \in 1..Len(activity_logs) : activity_logs[i].task_id = id

\* C3: every registered identity holds exactly one user_roles row, and no
\* step adds a row to it or changes it.
C3_OneRolePerIdentity ==
    [][\A u \in users :
          LET RolesOf(table) == {r \in table : r.user_id = u}
          IN  /\ Cardinality(RolesOf(user_roles)) = 1
              /\ RolesOf(user_roles') = RolesOf(user_roles)]_vars

\* C4: created_by of a task never changes once the row is inserted.
C4_CreatedByImmutable ==
    [][\A id \in DOMAIN tasks \cap DOMAIN tasks' :
          tasks'[id].created_by = tasks[id].created_by]_vars

\* the policy predicate of the spec's table for Task update
UpdatePredicate(u, row) == ManagerCreator(u, row) \/ row.assigned_to = u

\* the columns of the row that updateTask(id, p) asks for
RequestedRow(row, p) ==
    [created_by |-> IF p.created_by = ABSENT THEN row.created_by ELSE p.created_by,
     assigned_to |-> IF p.assigned_to = ABSENT THEN row.assigned_to ELSE p.assigned_to,
     priority |-> IF p.priority = AbsentPriority THEN row.priority ELSE p.priority]

C6_AssigneeChangesStatusOnly ==
    [][(last'.op = "updateTask" /\ last'.res = "updated")
          => \A id \in DOMAIN tasks :
                (/\ tasks'[id] # tasks[id]
                 /\ tasks[id].assigned_to = last'.by
                 /\ ~ManagerCreator(last'.by, tasks[id]))
                    => tasks'[id] = [tasks[id] EXCEPT
                                        !.status = tasks'[id].status,
                                        !.updated_at = tasks'[id].updated_at]]_vars

\* C8: when createTask or updateTask returns success and the task it wrote
\* is in the store, activity_logs holds exactly one row for that write.
C8_ExactlyOneLogRowAtReturn ==
    [][(/\ last'.op \in {"createTask", "updateTask"}
        /\ last'.res = "ok"
        /\ pending[last'.by].task_id \in DOMAIN tasks')
          => Cardinality({i \in 1..Len(activity_logs') :
                             activity_logs'[i] = pending[last'.by]}) = 1]_vars

\* C9: no state shows a task row committed by createTask or updateTask
\* without the activity_logs row of that write.
C9_NoTaskWithoutItsLogRow ==
    \A id \in DOMAIN tasks :
        \E i \in 1..Len(activity_logs) :
            /\ activity_logs[i].task_id = id
            /\ activity_logs[i].new_value = tasks[id]

\* C10: the activity_logs row a call prepares has, for an update, old_value =
\* the committed row before the update and new_value = the committed row after
\* it, and for a create, old_value null and new_value = the inserted row.
C10_LogSnapshotsMatchCommittedRows ==
    [][(last'.op \in {"createTask", "updateTask"} /\ last'.res \in {"inserted", "updated"})
          => LET row == pending'[last'.by]
             IN  /\ row.new_value = tasks'[row.task_id]
                 /\ row.old_value = IF row.action = "created" THEN NoRow
                                    ELSE tasks[row.task_id]]_vars

\* C11 as stated: registering X succeeds whatever the role metadata and
\* leaves exactly one profile and exactly one user_roles row for X, with role
\* manager when the metadata is "manager" and role user otherwise (absent or
\* not a label of app_role included).
C11_SignUpProvisionsProfileAndRole ==
    [][\A u \in Users, meta \in RoleMeta :
          SignUp(u, meta)
              => /\ u \in users'
                 /\ u \in profiles'
                 /\ {r \in user_roles' : r.user_id = u} =
                        {[user_id |-> u,
                          role |-> IF meta = "manager" THEN "manager" ELSE "user"]}]_vars

\* C12: every activity_logs row refers to a task that exists; a delete of a
\* task takes the rows that refer to it along.
C12_LogRowsReferToExistingTasks ==
    \A i \in 1..Len(activity_logs) : activity_logs[i].task_id \in DOMAIN tasks

\* a deleteTask has just removed a task that had been handed an id, no log
\* row of it is left, and the log row of another task is still held
C12_Witness ==
    /\ last.op = "deleteTask"
    /\ \E id \in 1..(nextId - 1) : id \notin DOMAIN tasks
    /\ \E i \in 1..Len(activity_logs) : activity_logs[i].task_id \in DOMAIN tasks

\* C13 as stated: removing an identity leaves every task it was assigned to
\* in the store, with assigned_to null.
C13_RemovedAssigneeIsNulled ==
    [][last'.op = "deleteUser"
          => \A id \in DOMAIN tasks :
                tasks[id].assigned_to = last'.by
                    => id \in DOMAIN tasks' /\ tasks'[id].assigned_to = NULL]_vars

\* C13 amended: removing an identity removes the tasks it created, and leaves
\* every other task it was assigned to in the store with assigned_to null.
C13_RemovedAssigneeIsNulledUnlessCreator ==
    [][last'.op = "deleteUser"
          => \A id \in DOMAIN tasks :
                /\ tasks[id].created_by = last'.by => id \notin DOMAIN tasks'
                /\ (tasks[id].assigned_to = last'.by /\ tasks[id].created_by # last'.by)
                       => /\ id \in DOMAIN tasks'
                          /\ tasks'[id] = [tasks[id] EXCEPT !.assigned_to = NULL,
                                              !.updated_at = tasks'[id].updated_at]]_vars

\* an identity has just been removed, and a task that was logged as assigned
\* to it is still in the store, now with assigned_to null
C13_Witness ==
    /\ last.op = "deleteUser"
    /\ \E id \in DOMAIN tasks :
           /\ tasks[id].assigned_to = NULL
           /\ tasks[id].updated_at = clock
           /\ \E i \in 1..Len(activity_logs) :
                  /\ activity_logs[i].task_id = id
                  /\ activity_logs[i].new_value.assigned_to = last.by
                  /\ activity_logs[i].new_value.updated_at < clock

\* the columns of an activity_logs row that the claim speaks of
LogCore(row) == [task_id |-> row.task_id, action |-> row.action,
                 old_value |-> row.old_value, new_value |-> row.new_value]

\* C15: no step changes task_id, action, old_value or new_value of a written
\* activity_logs row or removes the row, unless the step removes its task.
C15_LogsAreAppendOnly ==
    [][LET kept == {i \in 1..Len(activity_logs) :
                       activity_logs[i].task_id \in DOMAIN tasks'}
       IN  /\ Len(activity_logs') >= Cardinality(kept)
           /\ \A i \in kept :
                 LET j == Cardinality({k \in kept : k <= i})
                 IN  LogCore(activity_logs'[j]) = LogCore(activity_logs[i])]_vars

\* a client that can read a log row has just asked to delete one, and the
\* row is still held
C15_Witness ==
    /\ last.op = "deleteLog"
    /\ \E i \in 1..Len(activity_logs) : LogSelectPolicy(last.by, activity_logs[i])

\* every Partial<Task> the update action is given
AllUpdatePayloads == UpdatePayloads \cup DirectPayloads

\* the rows of task id that a select by u returns after the step
ReadBack(u, id) == {t \in VisibleTasks(u)' : t.id = id}

C20_StoredTasksMeetFormLimits ==
    \A id \in DOMAIN tasks :
        /\ Len(tasks[id].title) >= 1
        /\ Len(tasks[id].title) <= 200
        /\ tasks[id].status \in Statuses
        /\ tasks[id].priority \in 1..5

\* C14: an activity_logs row is readable by I exactly when I is created_by or
\* assigned_to of the task it refers to as that task is stored now, whatever
\* the task was when the row was written.
C14_LogReadableByCurrentCreatorOrAssignee ==
    \A u \in users, i \in 1..Len(activity_logs) :
        LogSelectPolicy(u, activity_logs[i])
            <=> /\ activity_logs[i].task_id \in DOMAIN tasks
                /\ \/ tasks[activity_logs[i].task_id].created_by = u
                   \/ tasks[activity_logs[i].task_id].assigned_to = u

\* a log row was written while the task was assigned to u; the task has
\* since been given to another identity, and u can no longer read the row
C14_Witness ==
    \E u \in users, i \in 1..Len(activity_logs) :
        /\ activity_logs[i].new_value.assigned_to = u
        /\ activity_logs[i].task_id \in DOMAIN tasks
        /\ tasks[activity_logs[i].task_id].assigned_to \in users \ {u}
        /\ ~LogSelectPolicy(u, activity_logs[i])

\* the row that holds p's value in every column p carries and base's value
\* in every other column, stamped now
Overwrite(base, p, now) ==
    [id |-> base.id,
     title |-> IF p.title = ABSENT THEN base.title ELSE p.title,
     status |-> IF p.status = ABSENT THEN base.status ELSE p.status,
     priority |-> IF p.priority = AbsentPriority THEN base.priority ELSE p.priority,
     created_by |-> IF p.created_by = ABSENT THEN base.created_by ELSE p.created_by,
     assigned_to |-> IF p.assigned_to = ABSENT THEN base.assigned_to ELSE p.assigned_to,
     updated_at |-> now]

\* u's update of task id is accepted in this step with payload p while the
\* updateTask call of another identity v on the same task, whose update is
\* the latest committed write, has not returned yet
ConcurrentUpdates(u, v, id, p) ==
    /\ u # v
    /\ pending[v].action = "updated"
    /\ pending[v].task_id = id
    /\ pending[v].new_value.updated_at = clock
    /\ UpdateTask(u, id, p)
    /\ last'.res = "updated"

C18_SettledClientHoldsVisibleTasks ==
    \A u \in subscribed :
        (u \notin notified /\ fetching[u] = {}) => clientTasks[u] = VisibleTasks(u)

\* C19: a call that reports success has taken effect: a deleteTask that
\* returns without error has removed a task, and a createTask or updateTask
\* that returns without error has added its activity_logs row.
C19_SuccessMeansEffect ==
    [][/\ (last'.op = "deleteTask" /\ last'.res = "ok") => tasks' # tasks
       /\ (last'.op \in {"createTask", "updateTask"} /\ last'.res = "ok")
              => activity_logs' = Append(activity_logs, pending[last'.by])]_vars

\* C21 as stated: a task created with neither status nor priority is stored
\* with status todo and priority 3.
C21_BareCreateStoresTodoAndThree ==
    [][\A u \in Users, p \in BareCreates :
          (CreateTask(u, p) /\ last'.res = "inserted")
              => /\ tasks'[nextId].status = "todo"
                 /\ tasks'[nextId].priority = 3]_vars

\* an id that no task has
NoSuchTask == 0

\* what identity u learns from the requests it can send about task id: the
\* rows a read of the task returns, the answer to each update, whether a
\* delete removes a row, the log rows it can read, and the answer to the
\* insert of a log row of its own for the task
Observations(u, id) ==
    [read |-> {t \in VisibleTasks(u) : t.id = id},
     update |-> [p \in UpdatePayloads |-> UpdateOutcome(u, id, p)],
     delete |-> /\ id \in DOMAIN tasks
                /\ TaskSelectPolicy(u, tasks[id])
                /\ TaskDeletePolicy(u, tasks[id]),
     logs |-> {i \in 1..Len(activity_logs) :
                  activity_logs[i].task_id = id /\ LogSelectPolicy(u, activity_logs[i])},
     insertLog |-> InsertLogOutcome(u, [task_id |-> id, user_id |-> u,
                                        action |-> "updated", old_value |-> NoRow,
                                        new_value |-> NoRow])]

\* C22: an identity that is neither creator nor assignee of a stored task
\* gets from every request about it the answer it gets for a task that does
\* not exist.
C22_UnauthorizedTaskLooksAbsent ==
    \A u \in users, id \in DOMAIN tasks :
        (tasks[id].created_by # u /\ tasks[id].assigned_to # u)
            => Observations(u, id) = Observations(u, NoSuchTask)

\* C23: every row added to activity_logs is the row that an accepted create
\* or update of that task by that identity prepared, so a row for a task
\* can only come from an identity whose write of the task was accepted.
C23_LogRowsComeFromAcceptedWrites ==
    [][Len(activity_logs') > Len(activity_logs)
          => \E u \in users :
                /\ pending[u] # NoLog
                /\ pending[u].user_id = u
                /\ activity_logs' = Append(activity_logs, pending[u])]_vars

\* the status changes the claim lists
ListedStatusChanges ==
    {<<"todo", "in_progress">>, <<"todo", "completed">>,
     <<"in_progress", "completed">>, <<"completed", "todo">>}

\* C24: the card offers Edit and Delete only to the manager who created the
\* task, a status change only to the assignee or that manager, and exactly
\* the listed status changes; and when the viewer's role is a committed role
\* of theirs and the card's copy is the committed row, the store accepts
\* every offered action.
C24_OfferedActionsAreAccepted ==
    /\ \A from \in Statuses, to \in Statuses :
           to \in StatusMenu(from) <=> <<from, to>> \in ListedStatusChanges
    /\ \A u \in users, role \in Roles : \A task \in clientTasks[u] :
           /\ canEdit(role, u, task) => (role = "manager" /\ task.created_by = u)
           /\ canDelete(role, u, task) => (role = "manager" /\ task.created_by = u)
           /\ canChangeStatus(role, u, task)
                  => (task.assigned_to = u \/ (role = "manager" /\ task.created_by = u))
           /\ (/\ role \in ClientRoles(u)
               /\ task.id \in DOMAIN tasks
               /\ tasks[task.id] = task)
                  => /\ canEdit(role, u, task)
                         => \A data \in FormEdits :
                                UpdateOutcome(u, task.id, data) = "updated"
                     /\ canDelete(role, u, task)
                         => /\ TaskSelectPolicy(u, tasks[task.id])
                            /\ TaskDeletePolicy(u, tasks[task.id])
                     /\ canChangeStatus(role, u, task)
                         => \A status \in StatusMenu(task.status) :
                                UpdateOutcome(u, task.id,
                                    [NoUpdates EXCEPT !.status = status]) = "updated"

\* the assignee, who holds role user only, has just been accepted a status
\* change that the card offered: the task they see as assigned is in progress
C24_Witness ==
    /\ last.op = "updateTask"
    /\ last.res = "updated"
    /\ ~IsManager(last.by)
    /\ \E id \in DOMAIN tasks :
           /\ tasks[id].assigned_to = last.by
           /\ tasks[id].status = "in_progress"
           /\ tasks[id].updated_at = clock
====
